---- MODULE Spec2Model ----
(***************************************************************************)
(* A model of the BMP decoder of gobmp (src/reader.go).                    *)
(*                                                                         *)
(* The byte source is a finite byte sequence with a read position.  A      *)
(* driver calls Decode and then DecodeConfig on a first file and then on a *)
(* second file related to the first one, and records what each call        *)
(* returned.  The decoder itself is modelled step by step: one action per  *)
(* stage of the pipeline, one step per iteration of the two loops          *)
(* (skipBytes and readBits).                                               *)
(***************************************************************************)
EXTENDS Integers, Sequences, FiniteSets, TLC

VARIABLES
    intBits,   \* width of Go's int in this build: 32 or 64
    input,     \* <<first, second>>: the descriptions the two files are built from
    src,       \* <<first, second>>: the bytes of the two files
    run,       \* index of the current call in Calls (Len(Calls) + 1 when all are done)
    pc,        \* position of the current call
    configOnly,\* the mode readHeaders was called in
    pos,       \* bytes consumed so far from the byte source d.r
    d,         \* the decoder struct
    img,       \* the target image (img_Paletted or img_NRGBA)
    n,         \* skipBytes: bytes still to skip
    srcRow,    \* readBits: the loop counter
    err,       \* the error the current call is about to return
    res        \* the results of the calls made so far, in order

vars == <<intBits, input, src, run, pc, configOnly, pos, d, img, n, srcRow, err, res>>

----------------------------------------------------------------------------
(* Bounds of the model.                                                    *)

\* Widths 1..MaxWidth are enumerated (plus WideWidth, below).
MaxWidth == 3
\* Heights 1..MaxHeight, bottom-up and top-down, are enumerated.
MaxHeight == 3
\* One wider image: rows of more than one byte at 1 bit, and of more than
\* four bytes at 4 bits.
WideWidth == 9
\* Length of the short gap between the palette and the pixel rows.
SmallGap == 3

----------------------------------------------------------------------------
(* Program constants.                                                      *)

bI_RGB == 0
bI_RLE8 == 1
bI_RLE4 == 2
bI_BITFIELDS == 3
\* len(buf) in skipBytes
SkipBufLen == 1024
\* the sanity bound on biClrUsed
MaxClrUsed == 10000
\* the largest destination palette
MaxDstPal == 256

Pow2(k) == 2 ^ k

(* Integers wider than the 32 bits of the model checker's own.  A uint32   *)
(* and a 64-bit int need not fit, so every value of the program that a     *)
(* file's 32-bit fields can make large (bfOffBits, headerSize,             *)
(* biCompression, biClrUsed, height, the gap) is kept as the pair          *)
(* [hi, lo] that stands for hi * 65536 + lo, with 0 <= lo < 65536.  The    *)
(* values the program keeps within 31 bits are plain integers.             *)

W(x) == [hi |-> x \div 65536, lo |-> x % 65536]

WNorm(h, l) == [hi |-> h + (l \div 65536), lo |-> l % 65536]

WAdd(a, b) == WNorm(a.hi + b.hi, a.lo + b.lo)

WSub(a, b) == WNorm(a.hi - b.hi, a.lo - b.lo)

WNeg(a) == WNorm(0 - a.hi, 0 - a.lo)

WLt(a, b) == a.hi < b.hi \/ (a.hi = b.hi /\ a.lo < b.lo)

\* The plain integer a wide value is, when it has one.
Small(a) == a.hi * 65536 + a.lo

\* A wide value wrapped to the signed range of Go's int in this build.
ToInt(a) ==
    IF intBits = 64 THEN a
    ELSE LET h == a.hi % 65536
         IN  [hi |-> IF h >= 32768 THEN h - 65536 ELSE h, lo |-> a.lo]

\* Go's int32(x) of a uint32: a plain integer.
ToInt32(a) == Small([hi |-> IF a.hi >= 32768 THEN a.hi - 65536 ELSE a.hi, lo |-> a.lo])

getWORD(b) == b[1] + b[2] * 256

\* a uint32
getDWORD(b) == [hi |-> b[3] + b[4] * 256, lo |-> b[1] + b[2] * 256]

\* b[lo:hi] of Go, on a 1-based sequence
Slice(b, lo, hi) == SubSeq(b, lo + 1, hi)

----------------------------------------------------------------------------
(* Errors.                                                                 *)

\* arg is the number the message ends with, a wide value.
nil == [kind |-> "nil", msg |-> "", arg |-> W(0)]
FormatError(m, a) == [kind |-> "FormatError", msg |-> m, arg |-> a]
UnsupportedError(m, a) == [kind |-> "UnsupportedError", msg |-> m, arg |-> a]
\* io.EOF and io.ErrUnexpectedEOF
IoError(k) == [kind |-> k, msg |-> "", arg |-> W(0)]

----------------------------------------------------------------------------
(* The byte source: io.ReadFull(d.r, buf) with len(buf) = k, on file f     *)
(* read up to position p.                                                  *)

ReadFull(f, p, k) ==
    IF k = 0 THEN [err |-> nil, buf |-> <<>>, pos |-> p]
    ELSE IF p + k <= Len(f)
         THEN [err |-> nil, buf |-> SubSeq(f, p + 1, p + k), pos |-> p + k]
         ELSE [err |-> IoError(IF p >= Len(f) THEN "EOF" ELSE "ErrUnexpectedEOF"),
               buf |-> <<>>, pos |-> Len(f)]

----------------------------------------------------------------------------
(* The decoder struct, as new(decoder) leaves it.                          *)

NewDecoder ==
    [bfOffBits |-> W(0), headerSize |-> W(0), width |-> 0, height |-> W(0),
     bitCount |-> 0, biCompression |-> W(0),
     srcPalNumEntries |-> 0, srcPalBytesPerEntry |-> 0, srcPalSizeInBytes |-> 0,
     dstPalNumEntries |-> 0, dstHasPalette |-> FALSE, dstPalette |-> <<>>,
     hasBitfieldsSegment |-> FALSE, bitFieldsSize |-> 0, isTopDown |-> FALSE]

\* No image yet.  Pix is kept sparse: it maps the indices written so far to
\* their values, every other element of the buffer being zero, as NewPaletted
\* and NewNRGBA leave it.  written lists the rows handed to the row decoder.
NoImage ==
    [kind |-> "none", Width |-> 0, Height |-> W(0), Stride |-> 0,
     Palette |-> <<>>, Pix |-> <<>>, written |-> <<>>]

\* image.NewPaletted(image.Rect(0, 0, w, h), p)
NewPaletted(w, h, p) ==
    [kind |-> "Paletted", Width |-> w, Height |-> h, Stride |-> w,
     Palette |-> p, Pix |-> <<>>, written |-> <<>>]

\* image.NewNRGBA(image.Rect(0, 0, w, h))
NewNRGBA(w, h) ==
    [kind |-> "NRGBA", Width |-> w, Height |-> h, Stride |-> 4 * w,
     Palette |-> <<>>, Pix |-> <<>>, written |-> <<>>]

SetMin(S) == CHOOSE x \in S : \A y \in S : x <= y

----------------------------------------------------------------------------
(* The row decoders.  Each returns the error and the image after the row.  *)

\* decodePalettedRow with the range check off by one (v > len).
decodePalettedRow_offByOne(dd, im, j, v) ==
    LET bad   == {i \in 0 .. dd.width - 1 : v[i] > dd.dstPalNumEntries}
        stop  == IF bad = {} THEN dd.width ELSE SetMin(bad)
        base  == j * im.Stride
        wr    == [k \in {base + i : i \in 0 .. stop - 1} |-> v[k - base]]
    IN  [err |-> IF bad = {} THEN nil
                 ELSE FormatError("palette index out of range", W(0)),
         img |-> [im EXCEPT !.Pix = wr @@ @, !.written = Append(@, j)]]

\* The loop shared by decodeRow_1, decodeRow_4 and decodeRow_8: pixel i of
\* the row is v[i]; the first value out of the palette's range ends the loop
\* with the pixels before it already stored.
decodePalettedRow(dd, im, j, v) ==
    LET bad   == {i \in 0 .. dd.width - 1 : v[i] >= dd.dstPalNumEntries}
        stop  == IF bad = {} THEN dd.width ELSE SetMin(bad)
        base  == j * im.Stride
        wr    == [k \in {base + i : i \in 0 .. stop - 1} |-> v[k - base]]
    IN  [err |-> IF bad = {} THEN nil
                 ELSE FormatError("palette index out of range", W(0)),
         img |-> [im EXCEPT !.Pix = wr @@ @, !.written = Append(@, j)]]

\* decodeRow_1 taking the bits of a byte least significant first.
decodeRow_1_lsbFirst(dd, buf, im, j) ==
    decodePalettedRow(dd, im, j,
        [i \in 0 .. dd.width - 1 |->
            IF (buf[(i \div 8) + 1] \div Pow2(i % 8)) % 2 = 0 THEN 0 ELSE 1])

decodeRow_1(dd, buf, im, j) ==
    decodePalettedRow(dd, im, j,
        [i \in 0 .. dd.width - 1 |->
            IF (buf[(i \div 8) + 1] \div Pow2(7 - (i % 8))) % 2 = 0 THEN 0 ELSE 1])

decodeRow_4(dd, buf, im, j) ==
    decodePalettedRow(dd, im, j,
        [i \in 0 .. dd.width - 1 |->
            IF i % 2 = 0 THEN buf[(i \div 2) + 1] \div 16
            ELSE buf[(i \div 2) + 1] % 16])

decodeRow_8(dd, buf, im, j) ==
    decodePalettedRow(dd, im, j, [i \in 0 .. dd.width - 1 |-> buf[i + 1]])

decodeRow_24(dd, buf, im, j) ==
    LET base == j * im.Stride
        wr   == [k \in {base + i * 4 + c : i \in 0 .. dd.width - 1, c \in 0 .. 3} |->
                   LET i == (k - base) \div 4
                       c == (k - base) % 4
                   IN  CASE c = 0 -> buf[i * 3 + 2 + 1]
                         [] c = 1 -> buf[i * 3 + 1 + 1]
                         [] c = 2 -> buf[i * 3 + 0 + 1]
                         [] OTHER -> 255]
    IN  [err |-> nil,
         img |-> [im EXCEPT !.Pix = wr @@ @, !.written = Append(@, j)]]

\* readBits: the length of a source row
srcRowStride(dd) == ((dd.width * dd.bitCount + 31) \div 32) * 4

\* dstRowOf ignoring the row order of the file.
dstRowOf_noFlip(dd, sr) == sr

\* readBits: the output row of source row sr
dstRowOf(dd, sr) ==
    IF dd.isTopDown THEN sr ELSE Small(WSub(WSub(dd.height, W(sr)), W(1)))

\* readBits: the dispatch on the bit count
decodeRowFunc(dd, buf, im, j) ==
    CASE dd.bitCount = 1  -> decodeRow_1(dd, buf, im, j)
      [] dd.bitCount = 4  -> decodeRow_4(dd, buf, im, j)
      [] dd.bitCount = 8  -> decodeRow_8(dd, buf, im, j)
      [] dd.bitCount = 24 -> decodeRow_24(dd, buf, im, j)

----------------------------------------------------------------------------
(* The gap.                                                                *)

\* readGap: the offset the headers and the palette end at
currentOffset(dd) ==
    WAdd(WAdd(W(14), ToInt(dd.headerSize)), W(dd.bitFieldsSize + dd.srcPalSizeInBytes))

\* readGap without its test for a computed offset beyond the declared one.
readGap_noCheck(dd) ==
    IF currentOffset(dd) = ToInt(dd.bfOffBits)
    THEN [err |-> nil, call |-> FALSE, n |-> W(0)]
    ELSE [err |-> nil, call |-> TRUE,
          n |-> WSub(ToInt(dd.bfOffBits), currentOffset(dd))]

\* readGap: the error it returns without skipping, and otherwise the argument
\* it calls skipBytes with (call says whether it calls it at all)
readGap(dd) ==
    IF currentOffset(dd) = ToInt(dd.bfOffBits)
    THEN [err |-> nil, call |-> FALSE, n |-> W(0)]
    ELSE IF WLt(ToInt(dd.bfOffBits), currentOffset(dd))
         THEN [err |-> FormatError("bad bfOffBits field", W(0)), call |-> FALSE,
               n |-> W(0)]
         ELSE [err |-> nil, call |-> TRUE,
               n |-> WSub(ToInt(dd.bfOffBits), currentOffset(dd))]

\* skipBytes: the length of the next read
bytesToRead(k) == IF WLt(k, W(SkipBufLen)) THEN Small(k) ELSE SkipBufLen

----------------------------------------------------------------------------
(* The headers.                                                            *)

\* decodeFileHeader rejecting only a signature with both bytes wrong.
decodeFileHeader_bothWrong(dd, b) ==
    IF b[1] # 66 /\ b[2] # 77
    THEN [d |-> dd, err |-> FormatError("not a BMP file", W(0))]
    ELSE [d |-> [dd EXCEPT !.bfOffBits = getDWORD(Slice(b, 10, 14))], err |-> nil]

decodeFileHeader(dd, b) ==
    IF b[1] # 66 \/ b[2] # 77
    THEN [d |-> dd, err |-> FormatError("not a BMP file", W(0))]
    ELSE [d |-> [dd EXCEPT !.bfOffBits = getDWORD(Slice(b, 10, 14))], err |-> nil]

\* decodeInfoHeader40, lines 236-252: the palette size
decodeClrUsed(dd, h) ==
    LET biClrUsed == getDWORD(Slice(h, 32, 36))
        d1 == [dd EXCEPT !.srcPalBytesPerEntry = 4]
    IN  IF WLt(W(MaxClrUsed), biClrUsed)
        THEN [d |-> dd, err |-> FormatError("bad palette size", biClrUsed)]
        ELSE IF dd.bitCount >= 1 /\ dd.bitCount <= 8
             THEN IF biClrUsed = W(0)
                  THEN [d |-> [d1 EXCEPT !.srcPalNumEntries = Pow2(dd.bitCount)],
                        err |-> nil]
                  ELSE [d |-> [d1 EXCEPT !.srcPalNumEntries = Small(biClrUsed)],
                        err |-> nil]
             ELSE [d |-> [d1 EXCEPT !.srcPalNumEntries = Small(biClrUsed)],
                   err |-> nil]

\* decodeInfoHeader40, lines 226-234: the compression
decodeCompression(dd, h) ==
    LET d1 == [dd EXCEPT !.biCompression = getDWORD(Slice(h, 16, 20))]
    IN  IF d1.biCompression # W(bI_RGB) /\ d1.biCompression # W(bI_RLE4) /\
           d1.biCompression # W(bI_RLE8) /\ d1.biCompression # W(bI_BITFIELDS)
        THEN [d |-> d1,
              err |-> UnsupportedError("compression or image type", d1.biCompression)]
        ELSE IF d1.biCompression = W(bI_BITFIELDS) /\ d1.headerSize = W(40)
             THEN [d |-> [d1 EXCEPT !.hasBitfieldsSegment = TRUE, !.bitFieldsSize = 12],
                   err |-> nil]
             ELSE [d |-> d1, err |-> nil]

\* decodeHeight taking the complement of a negative height for its negation.
decodeHeight_complement(dd, h) ==
    LET hh == W(ToInt32(getDWORD(Slice(h, 8, 12))))
    IN  IF WLt(hh, W(0))
        THEN [dd EXCEPT !.isTopDown = TRUE, !.height = ToInt(WSub(WNeg(hh), W(1)))]
        ELSE [dd EXCEPT !.height = hh]

\* decodeInfoHeader40, lines 214-218: the height and the row order
decodeHeight(dd, h) ==
    LET hh == W(ToInt32(getDWORD(Slice(h, 8, 12))))
    IN  IF WLt(hh, W(0))
        THEN [dd EXCEPT !.isTopDown = TRUE, !.height = ToInt(WNeg(hh))]
        ELSE [dd EXCEPT !.height = hh]

\* decodeInfoHeader40 reading the compression and the palette size in
\* config-only mode too.
decodeInfoHeader40_alwaysFull(dd, h, cfgOnly) ==
    LET d1 == [dd EXCEPT !.width = ToInt32(getDWORD(Slice(h, 4, 8)))]
        d2 == decodeHeight(d1, h)
        d3 == [d2 EXCEPT !.bitCount = getWORD(Slice(h, 14, 16))]
        c  == decodeCompression(d3, h)
    IN  IF d1.width < 1 THEN [d |-> d1, err |-> FormatError("bad width", W(d1.width))]
        ELSE IF WLt(d2.height, W(1))
             THEN [d |-> d2, err |-> FormatError("bad height", d2.height)]
             ELSE IF c.err # nil THEN c
                  ELSE decodeClrUsed(c.d, h)

decodeInfoHeader40(dd, h, cfgOnly) ==
    LET d1 == [dd EXCEPT !.width = ToInt32(getDWORD(Slice(h, 4, 8)))]
        d2 == decodeHeight(d1, h)
        d3 == [d2 EXCEPT !.bitCount = getWORD(Slice(h, 14, 16))]
        c  == decodeCompression(d3, h)
    IN  IF d1.width < 1 THEN [d |-> d1, err |-> FormatError("bad width", W(d1.width))]
        ELSE IF WLt(d2.height, W(1))
             THEN [d |-> d2, err |-> FormatError("bad height", d2.height)]
             ELSE IF cfgOnly THEN [d |-> d3, err |-> nil]
                  ELSE IF c.err # nil THEN c
                       ELSE decodeClrUsed(c.d, h)

\* hasPalette without the lower bound of the range.
hasPalette_noLowerBound(dd) == dd.bitCount <= 8

\* readInfoHeader, lines 271-273
hasPalette(dd) == dd.bitCount >= 1 /\ dd.bitCount <= 8

\* readInfoHeader on file f read up to p
readInfoHeader(dd, f, p, cfgOnly) ==
    LET rd == ReadFull(f, p, Small(dd.headerSize) - 4)
        h  == <<0, 0, 0, 0>> \o rd.buf
        r  == decodeInfoHeader40(dd, h, cfgOnly)
    IN  IF rd.err # nil THEN [d |-> dd, err |-> rd.err, pos |-> rd.pos]
        ELSE IF r.err # nil THEN [d |-> r.d, err |-> r.err, pos |-> rd.pos]
             ELSE [d |-> IF hasPalette(r.d) THEN [r.d EXCEPT !.dstHasPalette = TRUE]
                         ELSE r.d,
                   err |-> nil, pos |-> rd.pos]

\* readPalette: the number of entries of the destination palette
dstPalLen(dd) ==
    IF dd.srcPalNumEntries > MaxDstPal THEN MaxDstPal ELSE dd.srcPalNumEntries

\* readPalette leaving the palette bytes unread when no destination palette
\* is built.
readPalette_skipsUnused(dd, f, p) ==
    LET rd == ReadFull(f, p, dd.srcPalSizeInBytes)
        e  == dd.srcPalBytesPerEntry
        k  == dstPalLen(dd)
    IN  IF ~dd.dstHasPalette
        THEN [d |-> [dd EXCEPT !.dstPalNumEntries = 0], err |-> nil, pos |-> p]
        ELSE IF rd.err # nil THEN [d |-> dd, err |-> rd.err, pos |-> rd.pos]
             ELSE [d |-> [dd EXCEPT !.dstPalNumEntries = k,
                                    !.dstPalette =
                                        [i \in 1 .. k |->
                                            <<rd.buf[(i - 1) * e + 2 + 1],
                                              rd.buf[(i - 1) * e + 1 + 1],
                                              rd.buf[(i - 1) * e + 0 + 1], 255>>]],
                   err |-> nil, pos |-> rd.pos]

\* readPalette on file f read up to p
readPalette(dd, f, p) ==
    LET rd == ReadFull(f, p, dd.srcPalSizeInBytes)
        e  == dd.srcPalBytesPerEntry
        k  == dstPalLen(dd)
    IN  IF rd.err # nil THEN [d |-> dd, err |-> rd.err, pos |-> rd.pos]
        ELSE IF ~dd.dstHasPalette
             THEN [d |-> [dd EXCEPT !.dstPalNumEntries = 0], err |-> nil, pos |-> rd.pos]
             ELSE [d |-> [dd EXCEPT !.dstPalNumEntries = k,
                                    !.dstPalette =
                                        [i \in 1 .. k |->
                                            <<rd.buf[(i - 1) * e + 2 + 1],
                                              rd.buf[(i - 1) * e + 1 + 1],
                                              rd.buf[(i - 1) * e + 0 + 1], 255>>]],
                   err |-> nil, pos |-> rd.pos]

----------------------------------------------------------------------------
(* The files the driver decodes.  A file is described by its fields and    *)
(* laid out as the format lays it out: the 14-byte file header, the        *)
(* 40-byte info header, the palette, the gap, the rows.                    *)

LE16(v) == <<v % 256, (v \div 256) % 256>>

\* The four bytes of v, a signed 32-bit value or the uint32 with its bits.
LE32(v) == LE16(W(v).lo) \o LE16(W(v).hi % 65536)

Fill(k, x) == [i \in 1 .. k |-> x]

Abs(x) == IF x < 0 THEN -x ELSE x

\* The most negative 32-bit value; as a uint32 its bits are 2^31.
MinInt32 == -2147483647 - 1

CeilDiv(a, b) == IF a % b = 0 THEN a \div b ELSE (a \div b) + 1

\* Bytes of a stored row of w pixels of bpp bits: rows are 32-bit aligned.
RowLen(w, bpp) == 4 * CeilDiv(w * bpp, 32)

\* Row contents: three families of bytes.  The first holds only the values 0
\* and 1, the third only values below 34 made of nibbles below 3, the second
\* bytes with high values and no left-right symmetry in their bits.
Pat ==
    << <<0, 1, 0, 1, 1, 0>>,
       <<163, 61, 128, 1, 254, 18>>,
       <<18, 1, 32, 2, 33, 16>> >>

\* The family each row of an image draws its bytes from, row after row.
Cyc == << <<1, 1, 1>>, <<1, 3, 2>>, <<2, 3, 1>>, <<3, 3, 3>> >>

\* The bytes (padding included) of row r of the image file f describes, rows
\* counted in storage order of the file before any reversal.
RowBytes(f, r) ==
    [b \in 1 .. f.stride |-> Pat[Cyc[f.cyc][(r % 3) + 1]][((b + r) % 6) + 1]]

\* Row k of the file, in storage order.
StoredRow(f, k) == RowBytes(f, IF f.rev THEN f.nrows - 1 - k ELSE k)

\* Palette entry i: blue, green, red, reserved.
PalEntry(f, i) == <<(i * 7 + 10) % 256, (i * 5 + 20) % 256, (i * 3 + 30) % 256, f.x>>

HeaderBytes(f) ==
    f.sig \o LE32(0) \o LE32(0) \o LE32(f.off) \o
    LE32(f.hsize) \o LE32(f.wf) \o LE32(f.hf) \o LE16(1) \o LE16(f.bpp) \o
    LE32(f.comp) \o Fill(12, f.x) \o LE32(f.clr) \o Fill(4, f.x)

PaletteBytes(f) ==
    [i \in 1 .. 4 * f.palN |-> PalEntry(f, (i - 1) \div 4)[((i - 1) % 4) + 1]]

PixelBytes(f) ==
    [i \in 1 .. f.nrows * f.stride |->
        StoredRow(f, (i - 1) \div f.stride)[((i - 1) % f.stride) + 1]]

Build(f) ==
    LET all == HeaderBytes(f) \o PaletteBytes(f) \o Fill(f.gap, f.x) \o PixelBytes(f)
    IN  IF f.len < 0 \/ f.len >= Len(all) THEN all ELSE SubSeq(all, 1, f.len)

\* The palette entries the format gives an image of bpp bits declaring clr.
PalCount(bpp, clr) == IF bpp >= 1 /\ bpp <= 8 /\ clr = 0 THEN Pow2(bpp) ELSE clr

\* A well-formed uncompressed file.
WellFormed(bpp, clr, w, hf, cyc, gap) ==
    [sig |-> <<66, 77>>, off |-> 54 + PalCount(bpp, clr) * 4 + gap, hsize |-> 40,
     wf |-> w, hf |-> hf, bpp |-> bpp, comp |-> 0, clr |-> clr,
     palN |-> PalCount(bpp, clr), gap |-> gap, nrows |-> Abs(hf),
     stride |-> RowLen(w, bpp), cyc |-> cyc, rev |-> FALSE, x |-> 0, len |-> -1]

\* The same image stored in the other row order.
Flip(f) == [f EXCEPT !.hf = -f.hf, !.rev = ~f.rev]

\* Bit depth and colors-used count.
BppClr ==
    {<<1, 0>>, <<1, 1>>, <<1, 2>>, <<4, 0>>, <<4, 3>>,
     <<8, 2>>, <<8, 40>>, <<24, 0>>, <<24, 2>>}

\* The same, for the palettes of 256 entries and more.
BppClrLarge == {<<8, 0>>, <<8, 300>>}

Widths == (1 .. MaxWidth) \cup {WideWidth}

HeightFields == {h : h \in 1 .. MaxHeight} \cup {-h : h \in 1 .. MaxHeight}

Valid ==
    {WellFormed(bc[1], bc[2], w, hf, c, g) :
        bc \in BppClr, w \in Widths, hf \in HeightFields,
        c \in 1 .. Len(Cyc), g \in {0, SmallGap}} \cup
    {WellFormed(bc[1], bc[2], MaxWidth, hf, c, 0) :
        bc \in BppClrLarge, hf \in HeightFields, c \in 1 .. Len(Cyc)}

\* A few well-formed files, and what one wrong field makes of each.
Core ==
    {WellFormed(bc[1], bc[2], 2, hf, 1, 0) :
        bc \in {<<1, 0>>, <<4, 0>>, <<8, 2>>, <<24, 0>>}, hf \in {2, -2}}

Deviations(a) ==
    {[a EXCEPT !.sig = s] : s \in {<<88, 88>>, <<66, 88>>, <<77, 66>>}} \cup
    {[a EXCEPT !.hsize = s] : s \in {12, 108, 124}} \cup
    {[a EXCEPT !.wf = w] : w \in {0, -1}} \cup
    {[a EXCEPT !.hf = h] : h \in {0, MinInt32}} \cup
    {[a EXCEPT !.bpp = b] : b \in {0, 2, 16, 32}} \cup
    {[a EXCEPT !.comp = c] : c \in {bI_RLE8, bI_RLE4, bI_BITFIELDS, 4}} \cup
    {[a EXCEPT !.comp = bI_BITFIELDS, !.bpp = 16]} \cup
    {[a EXCEPT !.clr = c] : c \in {MaxClrUsed + 1, -1}} \cup
    {[a EXCEPT !.off = o] : o \in {0, a.off - 1, a.off + MinInt32}} \cup
    {[a EXCEPT !.off = a.off + g, !.gap = g] : g \in {SkipBufLen + SmallGap}}

Deviant == UNION {Deviations(a) : a \in Core}

\* Files that differ from a only from byte 30 on, some of them cut short.
TailVariants(a) ==
    {[a EXCEPT !.x = 255]} \cup
    {[a EXCEPT !.comp = 4, !.clr = MaxClrUsed + 1, !.x = 255, !.len = l] :
        l \in {30, 53, 54, -1}}

\* a, cut short at every stage of the pipeline.
Truncations(a) ==
    LET full == a.off + a.nrows * a.stride
    IN  {[a EXCEPT !.len = l] :
            l \in {0, 1, 2, 17, 18, 53, 54, 55, a.off - 1,
                   full - a.stride, full - a.stride + 1, full - 1}}

\* The same headers and palette over other pixel rows.
OtherRows(a) == {[a EXCEPT !.cyc = c] : c \in (1 .. Len(Cyc)) \ {a.cyc}}

Pairs ==
    {<<a, Flip(a)>> : a \in Valid} \cup
    UNION {{<<a, b>> : b \in OtherRows(a)} :
              a \in {v \in Valid : v.cyc = 1 /\ v.wf = MaxWidth /\ v.hf > 0 /\ v.gap = 0}} \cup
    UNION {{<<a, b>> : b \in TailVariants(a)} : a \in Core \cup Deviant} \cup
    UNION {{<<a, b>> : b \in Truncations(a)} :
              a \in Core \cup {[c EXCEPT !.sig = <<88, 88>>] : c \in Core}}

\* The calls the driver makes, in order.
Calls ==
    << [fn |-> "Decode", file |-> 1], [fn |-> "DecodeConfig", file |-> 1],
       [fn |-> "Decode", file |-> 2], [fn |-> "DecodeConfig", file |-> 2] >>

File == src[Calls[run].file]

----------------------------------------------------------------------------
(* The state machine.                                                      *)

Init ==
    /\ intBits \in {32, 64}
    /\ \E pr \in Pairs :
          /\ input = pr
          /\ src = <<Build(pr[1]), Build(pr[2])>>
    /\ run = 1
    /\ pc = "idle"
    /\ configOnly = FALSE
    /\ pos = 0
    /\ d = NewDecoder
    /\ img = NoImage
    /\ n = W(0)
    /\ srcRow = 0
    /\ err = nil
    /\ res = <<>>

\* What a call returns, with what it consumed and how many rows it decoded.
Result(e, w, h, cm, im) ==
    [fn |-> Calls[run].fn, file |-> Calls[run].file, err |-> e,
     Width |-> w, Height |-> h, ColorModel |-> cm, img |-> im,
     consumed |-> pos, rows |-> Len(img.written)]

\* d := new(decoder); d.r = r
Enter(mode) ==
    /\ configOnly' = mode
    /\ pos' = 0
    /\ d' = NewDecoder
    /\ img' = NoImage
    /\ n' = W(0)
    /\ srcRow' = 0
    /\ err' = nil
    /\ pc' = "readHeaders"
    /\ UNCHANGED <<intBits, input, src, run, res>>

CallDecode ==
    /\ pc = "idle"
    /\ run <= Len(Calls)
    /\ Calls[run].fn = "Decode"
    /\ Enter(FALSE)

CallDecodeConfig ==
    /\ pc = "idle"
    /\ run <= Len(Calls)
    /\ Calls[run].fn = "DecodeConfig"
    /\ Enter(TRUE)

\* readHeaders up to its switch on the header size, on file f read up to p
readFileHeader(dd, f, p) ==
    LET rd == ReadFull(f, p, 18)
        fh == decodeFileHeader(dd, Slice(rd.buf, 0, 14))
        d1 == [fh.d EXCEPT !.headerSize = getDWORD(Slice(rd.buf, 14, 18))]
    IN  IF rd.err # nil THEN [d |-> dd, err |-> rd.err, pos |-> rd.pos]
        ELSE IF fh.err # nil THEN [d |-> fh.d, err |-> fh.err, pos |-> rd.pos]
             ELSE IF d1.headerSize = W(40) THEN [d |-> d1, err |-> nil, pos |-> rd.pos]
                  ELSE [d |-> d1,
                        err |-> UnsupportedError("BMP version (header size)",
                                                 d1.headerSize),
                        pos |-> rd.pos]

ReadHeaders ==
    /\ pc = "readHeaders"
    /\ LET r == readFileHeader(d, File, pos)
       IN  /\ pos' = r.pos
           /\ d' = r.d
           /\ err' = r.err
           /\ pc' = IF r.err # nil THEN "error" ELSE "readInfoHeader"
    /\ UNCHANGED <<intBits, input, src, run, configOnly, img, n, srcRow, res>>

\* readHeaders, line 342
palSizeInBytes(dd) == dd.srcPalNumEntries * dd.srcPalBytesPerEntry

ReadInfoHeader ==
    /\ pc = "readInfoHeader"
    /\ LET r == readInfoHeader(d, File, pos, configOnly)
       IN  /\ pos' = r.pos
           /\ err' = r.err
           /\ IF r.err # nil
              THEN /\ d' = r.d
                   /\ pc' = "error"
              ELSE /\ d' = [r.d EXCEPT !.srcPalSizeInBytes = palSizeInBytes(r.d)]
                   /\ pc' = IF configOnly THEN "config" ELSE "checks"
    /\ UNCHANGED <<intBits, input, src, run, configOnly, img, n, srcRow, res>>

\* DecodeConfig, lines 362-366
colorModel(dd) == IF dd.dstHasPalette THEN "Palette" ELSE "NRGBAModel"

ConfigResult ==
    /\ pc = "config"
    /\ res' = Append(res, Result(nil, d.width, d.height, colorModel(d), NoImage))
    /\ run' = run + 1
    /\ pc' = "idle"
    /\ UNCHANGED <<intBits, input, src, configOnly, pos, d, img, n, srcRow, err>>

\* decodeSupported without its test of the compression.
decodeSupported_anyCompression(dd) ==
    IF dd.bitCount \in {1, 4, 8, 24} THEN nil
    ELSE UnsupportedError("bit count", W(dd.bitCount))

\* Decode, lines 382-389
decodeSupported(dd) ==
    IF dd.biCompression # W(bI_RGB)
    THEN UnsupportedError("compression or image type", dd.biCompression)
    ELSE IF dd.bitCount \in {1, 4, 8, 24} THEN nil
         ELSE UnsupportedError("bit count", W(dd.bitCount))

DecodeChecks ==
    /\ pc = "checks"
    /\ err' = decodeSupported(d)
    /\ pc' = IF decodeSupported(d) # nil THEN "error" ELSE "readPalette"
    /\ UNCHANGED <<intBits, input, src, run, configOnly, pos, d, img, n, srcRow, res>>

\* Decode, lines 391-396
ReadPalette ==
    /\ pc = "readPalette"
    /\ IF d.srcPalNumEntries > 0
       THEN LET r == readPalette(d, File, pos)
            IN  /\ pos' = r.pos
                /\ d' = r.d
                /\ err' = r.err
                /\ pc' = IF r.err # nil THEN "error" ELSE "createImage"
       ELSE /\ pc' = "createImage"
            /\ UNCHANGED <<pos, d, err>>
    /\ UNCHANGED <<intBits, input, src, run, configOnly, img, n, srcRow, res>>

\* Decode, lines 398-403
newImage(dd) ==
    IF dd.dstHasPalette THEN NewPaletted(dd.width, dd.height, dd.dstPalette)
    ELSE NewNRGBA(dd.width, dd.height)

CreateImage ==
    /\ pc = "createImage"
    /\ img' = newImage(d)
    /\ pc' = "readGap"
    /\ UNCHANGED <<intBits, input, src, run, configOnly, pos, d, n, srcRow, err, res>>

\* Decode, line 405: readGap, up to the first test of skipBytes' loop
ReadGap ==
    /\ pc = "readGap"
    /\ LET g == readGap(d)
       IN  /\ err' = g.err
           /\ n' = g.n
           /\ pc' = IF g.err # nil THEN "error"
                    ELSE IF g.call /\ WLt(W(0), g.n) THEN "skipBytes" ELSE "readBits"
    /\ UNCHANGED <<intBits, input, src, run, configOnly, pos, d, img, srcRow, res>>

\* One iteration of skipBytes' loop, and the test that follows it.
SkipBytes ==
    /\ pc = "skipBytes"
    /\ LET rd == ReadFull(File, pos, bytesToRead(n))
       IN  /\ pos' = rd.pos
           /\ err' = rd.err
           /\ IF rd.err # nil
              THEN /\ pc' = "error"
                   /\ n' = n
              ELSE /\ n' = WSub(n, W(bytesToRead(n)))
                   /\ pc' = IF WLt(W(0), WSub(n, W(bytesToRead(n)))) THEN "skipBytes"
                            ELSE "readBits"
    /\ UNCHANGED <<intBits, input, src, run, configOnly, d, img, srcRow, res>>

\* One iteration of readBits' loop, and the test that follows it.
ReadBits ==
    /\ pc = "readBits"
    /\ IF d.bitCount \notin {1, 4, 8, 24} \/ ~WLt(W(srcRow), d.height)
       THEN /\ pc' = "result"
            /\ UNCHANGED <<pos, img, srcRow, err>>
       ELSE LET rd == ReadFull(File, pos, srcRowStride(d))
                r  == decodeRowFunc(d, rd.buf, img, dstRowOf(d, srcRow))
            IN  /\ pos' = rd.pos
                /\ IF rd.err # nil
                   THEN /\ err' = rd.err
                        /\ pc' = "error"
                        /\ UNCHANGED <<img, srcRow>>
                   ELSE /\ img' = r.img
                        /\ err' = r.err
                        /\ IF r.err # nil
                           THEN /\ pc' = "error"
                                /\ srcRow' = srcRow
                           ELSE /\ srcRow' = srcRow + 1
                                /\ pc' = IF WLt(W(srcRow + 1), d.height) THEN "readBits"
                                         ELSE "result"
    /\ UNCHANGED <<intBits, input, src, run, configOnly, d, n, res>>

\* Decode, lines 415-418
DecodeResult ==
    /\ pc = "result"
    /\ res' = Append(res, Result(nil, img.Width, img.Height, img.kind, img))
    /\ run' = run + 1
    /\ pc' = "idle"
    /\ UNCHANGED <<intBits, input, src, configOnly, pos, d, img, n, srcRow, err>>

\* Every "return nil, err" and "return cfg, err"
ReturnError ==
    /\ pc = "error"
    /\ res' = Append(res, Result(err, 0, W(0), "", NoImage))
    /\ run' = run + 1
    /\ pc' = "idle"
    /\ UNCHANGED <<intBits, input, src, configOnly, pos, d, img, n, srcRow, err>>

Next ==
    \/ CallDecode
    \/ CallDecodeConfig
    \/ ReadHeaders
    \/ ReadInfoHeader
    \/ ConfigResult
    \/ DecodeChecks
    \/ ReadPalette
    \/ CreateImage
    \/ ReadGap
    \/ SkipBytes
    \/ ReadBits
    \/ DecodeResult
    \/ ReturnError

Spec == Init /\ [][Next]_vars

----------------------------------------------------------------------------
(* What the claims speak of.                                               *)

\* Call k has returned; calls 1 and 2 are Decode and DecodeConfig of the
\* first file, calls 3 and 4 of the second.
Returned(k) == Len(res) >= k

Succeeded(r) == r.err = nil

\* The palette entries the header of f declares: its colors-used count or,
\* when that is zero at a bit depth of 1 to 8, 2^bitDepth.
SourcePaletteCount(f) == PalCount(f.bpp, f.clr)

MinOf(a, b) == IF a < b THEN a ELSE b

\* Bit k (0 the most significant) of a byte.
MSBits(b) ==
    <<b \div 128, (b \div 64) % 2, (b \div 32) % 2, (b \div 16) % 2,
      (b \div 8) % 2, (b \div 4) % 2, (b \div 2) % 2, b % 2>>

\* The reference unpacking of pixel i of a source row of index values.
RefIndex(bpp, row, i) ==
    CASE bpp = 1 -> MSBits(row[(i \div 8) + 1])[(i % 8) + 1]
      [] bpp = 4 -> <<row[(i \div 2) + 1] \div 16, row[(i \div 2) + 1] % 16>>[(i % 2) + 1]
      [] bpp = 8 -> row[i + 1]

\* The reference unpacking of pixel i of a 24-bit source row: R, G, B, A.
RefColor(row, i) == <<row[3 * i + 3], row[3 * i + 2], row[3 * i + 1], 255>>

\* The row of the file (in storage order) that output row j comes from.
SourceRowOf(f, j) == IF f.hf < 0 THEN j ELSE f.nrows - 1 - j

\* The whole pixel buffer the file f must decode to.
RefPix(f) ==
    IF f.bpp = 24
    THEN [k \in 0 .. f.nrows * f.wf * 4 - 1 |->
            RefColor(StoredRow(f, SourceRowOf(f, k \div (f.wf * 4))),
                     (k % (f.wf * 4)) \div 4)[(k % 4) + 1]]
    ELSE [k \in 0 .. f.nrows * f.wf - 1 |->
            RefIndex(f.bpp, StoredRow(f, SourceRowOf(f, k \div f.wf)), k % f.wf)]

\* Stored row k of f holds, within its first width pixels, an index that is
\* not below len.
RowOutOfRange(f, k, len) ==
    \E i \in 0 .. f.wf - 1 : RefIndex(f.bpp, StoredRow(f, k), i) >= len

PaletteIndexError == FormatError("palette index out of range", W(0))

----------------------------------------------------------------------------
(* C1: a successful Decode of a paletted image (bit depth 1, 4 or 8)       *)
(* returns a palette of min(sourcePaletteCount, 256) entries and only      *)
(* pixel indices below that length; and a Decode whose row decoder was     *)
(* handed a row holding, within its first width pixels, an index not below *)
(* that length fails with FormatError "palette index out of range".        *)
C1_IndicesInPalette ==
    \A k \in 1 .. Len(res) :
        LET r == res[k]
            f == input[r.file]
            len == MinOf(SourcePaletteCount(f), 256)
        IN  r.fn = "Decode" =>
              /\ (Succeeded(r) /\ r.img.kind = "Paletted") =>
                    /\ f.bpp \in {1, 4, 8}
                    /\ Len(r.img.Palette) = len
                    /\ DOMAIN r.img.Pix = 0 .. f.wf * f.nrows - 1
                    /\ \A x \in DOMAIN r.img.Pix : r.img.Pix[x] < len
              /\ (r.rows >= 1 /\ f.bpp \in {1, 4, 8} /\
                  \E s \in 0 .. r.rows - 1 : RowOutOfRange(f, s, len)) =>
                    r.err = PaletteIndexError

\* The first file decodes to a paletted image that uses its highest palette
\* index; the second, the same headers over other rows, fails on the second
\* row it reads.
C1_Witness ==
    /\ Returned(3)
    /\ Succeeded(res[1])
    /\ res[1].img.kind = "Paletted"
    /\ \E x \in DOMAIN res[1].img.Pix : res[1].img.Pix[x] = Len(res[1].img.Palette) - 1
    /\ res[3].err = PaletteIndexError
    /\ res[3].rows = 2

----------------------------------------------------------------------------
(* C2: row order law.  A bottom-up file and the top-down file storing the  *)
(* same rows in reverse order decode alike: the same error or the same     *)
(* image; source row k goes to output row k when top-down and to output    *)
(* row H-1-k when bottom-up, so a successful Decode has written every      *)
(* output row exactly once.                                                *)
SameImage(a, b) ==
    /\ a.kind = b.kind
    /\ a.Width = b.Width
    /\ a.Height = b.Height
    /\ a.Palette = b.Palette
    /\ a.Pix = b.Pix

\* The second file stores the rows of the first in reverse, under the
\* negated height.
FlippedPair == input[2].rev /\ input[2] = Flip(input[1])

C2_RowOrderLaw ==
    /\ (Returned(3) /\ FlippedPair) =>
          /\ res[1].err = res[3].err
          /\ SameImage(res[1].img, res[3].img)
    /\ \A k \in 1 .. Len(res) :
          LET r == res[k]
              f == input[r.file]
          IN  (r.fn = "Decode" /\ Succeeded(r)) =>
                /\ Len(r.img.written) = f.nrows
                /\ \A s \in 0 .. f.nrows - 1 :
                      r.img.written[s + 1] = IF f.hf < 0 THEN s ELSE f.nrows - 1 - s

\* Both files of a flipped pair have decoded, to an image of several rows
\* that are not all alike.
C2_Witness ==
    /\ Returned(3)
    /\ FlippedPair
    /\ input[1].hf >= 2
    /\ Succeeded(res[1])
    /\ Succeeded(res[3])
    /\ \E x \in 0 .. input[1].wf - 1 :
          res[1].img.Pix[x] # res[1].img.Pix[x + res[1].img.Stride]

----------------------------------------------------------------------------
(* C9: per-bit-depth unpacking.  A successful Decode stores, for every     *)
(* output row and column, the reference unpacking of the source row: the   *)
(* bits of a byte most significant first at 1 bit, the high nibble first   *)
(* at 4 bits, the byte at 8 bits, (R, G, B, 255) from the bytes B, G, R at *)
(* 24 bits; each source row takes ceil(width * bitDepth / 32) * 4 bytes,   *)
(* and its padding bytes do not reach the output.                          *)
C9_Unpacking ==
    \A k \in 1 .. Len(res) :
        LET r == res[k]
            f == input[r.file]
        IN  (r.fn = "Decode" /\ Succeeded(r)) =>
              /\ f.bpp \in {1, 4, 8, 24}
              /\ r.img.kind = IF f.bpp = 24 THEN "NRGBA" ELSE "Paletted"
              /\ r.img.Pix = RefPix(f)
              /\ r.consumed = f.off + f.nrows * RowLen(f.wf, f.bpp)

\* A 1-bit image wider than a byte has decoded, with a set pixel beyond the
\* first byte of a row.
C9_Witness ==
    /\ Returned(1)
    /\ Succeeded(res[1])
    /\ input[1].bpp = 1
    /\ input[1].wf = WideWidth
    /\ \E j \in 0 .. input[1].nrows - 1 :
          res[1].img.Pix[j * WideWidth + 8] = 1

----------------------------------------------------------------------------
(* The end of a Decode call, before it returns.                            *)
Finishing == pc \in {"error", "result"} /\ ~configOnly

\* decodeInfoHeader40 has run to its end in full mode: the palette size is
\* known.
HeadersParsed == d.srcPalBytesPerEntry = 4

\* computedOffset = 14 + headerSize + bitfieldsSize + sourcePaletteCount * 4
ComputedOffset ==
    WAdd(WAdd(W(14), d.headerSize), W(d.bitFieldsSize + d.srcPalNumEntries * 4))

ExceedsDeclared == WLt(d.bfOffBits, ComputedOffset)

BadOffsetError == FormatError("bad bfOffBits field", W(0))

(* C3, as stated: whenever computedOffset exceeds the declared pixel-data  *)
(* offset, Decode fails with a FormatError, skipBytes is never invoked     *)
(* with n < 0 and no pixel row is read.                                    *)
C3_Original ==
    /\ ~WLt(n, W(0))
    /\ (Finishing /\ HeadersParsed /\ ExceedsDeclared) =>
          /\ pc = "error"
          /\ err.kind = "FormatError"
          /\ img.written = <<>>

(* C3, amended: whenever computedOffset exceeds the declared pixel-data    *)
(* offset, Decode fails, skipBytes is not invoked (never with n < 0) and   *)
(* no pixel row is read; the failure is the FormatError of the gap skipper *)
(* when Decode gets as far as the gap skipper, and otherwise the           *)
(* UnsupportedError or the read error of the step that failed before it.   *)
C3_GapLaw ==
    /\ ~WLt(n, W(0))
    /\ (Finishing /\ HeadersParsed /\ ExceedsDeclared) =>
          /\ pc = "error"
          /\ n = W(0)
          /\ img.written = <<>>
          /\ img.kind # "none" => err = BadOffsetError
          /\ img.kind = "none" =>
                err.kind \in {"UnsupportedError", "EOF", "ErrUnexpectedEOF"}

\* The gap skipper has refused a declared offset below the computed one.
C3_Witness ==
    /\ Finishing
    /\ HeadersParsed
    /\ ExceedsDeclared
    /\ img.kind # "none"
    /\ err = BadOffsetError

----------------------------------------------------------------------------
\* The first two bytes of the file are there and are not 'B', 'M'.
BadSignature(f) == Len(f) >= 2 /\ (f[1] # 66 \/ f[2] # 77)

NotBMPError == FormatError("not a BMP file", W(0))

(* C4, as stated: on a wrong signature Decode and DecodeConfig fail with   *)
(* FormatError "not a BMP file", and no byte beyond the 2-byte signature   *)
(* is read.                                                                *)
C4_Original ==
    \A k \in 1 .. Len(res) :
        BadSignature(src[res[k].file]) =>
            /\ res[k].err = NotBMPError
            /\ res[k].consumed <= 2

(* C4, amended: on a wrong signature in an input of at least 18 bytes,     *)
(* Decode and DecodeConfig fail with FormatError "not a BMP file" after    *)
(* reading exactly the first 18 bytes (the file header and the header-size *)
(* field) and nothing beyond; a shorter input fails with the read error,   *)
(* whatever its signature.                                                 *)
C4_BadSignature ==
    \A k \in 1 .. Len(res) :
        LET f == src[res[k].file]
        IN  BadSignature(f) =>
              IF Len(f) >= 18
              THEN res[k].err = NotBMPError /\ res[k].consumed = 18
              ELSE res[k].err = IoError("ErrUnexpectedEOF") /\ res[k].consumed = Len(f)

\* Both calls have refused a file of 18 bytes or more whose signature is wrong.
C4_Witness ==
    /\ Returned(2)
    /\ BadSignature(src[1])
    /\ Len(src[1]) >= 18
    /\ res[1].err = NotBMPError
    /\ res[2].err = NotBMPError

----------------------------------------------------------------------------
\* The magnitude of a signed 32-bit field, as a wide value.
Magnitude(x) == IF x < 0 THEN WNeg(W(x)) ELSE W(x)

\* The 54 bytes of the headers of f are there and well-formed, whatever its
\* compression and bit depth.
HeaderWellFormed(f) ==
    /\ f.sig = <<66, 77>>
    /\ f.hsize = 40
    /\ f.wf >= 1
    /\ f.hf # 0
    /\ f.hf = MinInt32 => intBits = 64
    /\ f.clr >= 0
    /\ f.clr <= MaxClrUsed
    /\ (f.len < 0 \/ f.len >= 54)

ConfigModelOf(f) == IF f.bpp >= 1 /\ f.bpp <= 8 THEN "Palette" ELSE "NRGBAModel"

(* C5: on an otherwise well-formed file whose compression is RLE8, RLE4 or *)
(* bitfields, DecodeConfig succeeds with the dimensions and the color      *)
(* model while Decode fails with an UnsupportedError; and Decode succeeds  *)
(* only on compression none with a bit depth of 1, 4, 8 or 24.             *)
C5_Asymmetry ==
    \A i \in {1, 2} :
        Returned(2 * i) =>
            LET f   == input[i]
                dec == res[2 * i - 1]
                cfg == res[2 * i]
            IN  /\ (HeaderWellFormed(f) /\
                    f.comp \in {bI_RLE8, bI_RLE4, bI_BITFIELDS}) =>
                      /\ Succeeded(cfg)
                      /\ cfg.Width = f.wf
                      /\ cfg.Height = Magnitude(f.hf)
                      /\ cfg.ColorModel = ConfigModelOf(f)
                      /\ dec.err = UnsupportedError("compression or image type",
                                                    W(f.comp))
                /\ Succeeded(dec) => (f.comp = bI_RGB /\ f.bpp \in {1, 4, 8, 24})

\* DecodeConfig has accepted a bitfields file that Decode has refused.
C5_Witness ==
    /\ Returned(2)
    /\ input[1].comp = bI_BITFIELDS
    /\ Succeeded(res[2])
    /\ res[1].err.kind = "UnsupportedError"

----------------------------------------------------------------------------
(* C6: when Decode succeeds, DecodeConfig on the same bytes succeeds with  *)
(* the width and height of the bounds of the decoded image, both at least  *)
(* 1; the height either reports is the magnitude of the signed 32-bit      *)
(* height field, the most negative value included.                         *)
C6_SameDimensions ==
    \A i \in {1, 2} :
        Returned(2 * i) =>
            LET f   == input[i]
                dec == res[2 * i - 1]
                cfg == res[2 * i]
            IN  /\ Succeeded(dec) =>
                      /\ Succeeded(cfg)
                      /\ cfg.Width = dec.img.Width
                      /\ cfg.Height = dec.img.Height
                      /\ dec.Width = dec.img.Width
                      /\ dec.Height = dec.img.Height
                /\ Succeeded(cfg) =>
                      /\ cfg.Width = f.wf
                      /\ cfg.Width >= 1
                      /\ cfg.Height = Magnitude(f.hf)
                      /\ WLt(W(0), cfg.Height)

\* Both calls have succeeded on a top-down file of several rows.
C6_Witness ==
    /\ Returned(2)
    /\ Succeeded(res[1])
    /\ Succeeded(res[2])
    /\ input[1].hf < -1

----------------------------------------------------------------------------
\* Header parsing has succeeded and the call has not failed since.
PostHeader ==
    pc \in {"config", "checks", "readPalette", "createImage", "readGap",
            "skipBytes", "readBits", "result"}

\* The bit-depth field of the file being decoded.
BitDepthField == getWORD(Slice(File, 28, 30))

(* C7, as stated: after header parsing, in either mode, dstHasPalette is   *)
(* set exactly for the bit depths 1, 4 and 8.                              *)
C7_Original == PostHeader => (d.dstHasPalette <=> BitDepthField \in {1, 4, 8})

\* The flag after header parsing, and the color model DecodeConfig returns.
C7_Flag ==
    /\ PostHeader =>
          /\ d.dstHasPalette <=> BitDepthField \in 1 .. 8
          /\ pc \notin {"config", "checks"} =>
                (d.dstHasPalette <=> BitDepthField \in {1, 4, 8})
    /\ \A k \in 1 .. Len(res) :
          (res[k].fn = "DecodeConfig" /\ Succeeded(res[k])) =>
              (res[k].ColorModel = "Palette" <=> input[res[k].file].bpp \in 1 .. 8)

(* C7, amended: after header parsing, in either mode, dstHasPalette is set *)
(* exactly for the bit depths 1 to 8 (so DecodeConfig reports an indexed   *)
(* color model for 2, 3, 5, 6 and 7 as well), which past Decode's test of  *)
(* the bit depth means exactly for 1, 4 and 8; no later step changes it.   *)
C7_HasPalette ==
    /\ []C7_Flag
    /\ [][(PostHeader /\ PostHeader') => (d.dstHasPalette' = d.dstHasPalette)]_vars

\* DecodeConfig has reported an indexed color model for a bit depth of 2.
C7_Witness ==
    /\ Returned(2)
    /\ Succeeded(res[2])
    /\ input[1].bpp = 2
    /\ res[2].ColorModel = "Palette"

----------------------------------------------------------------------------
\* The two files agree on their bytes at offsets 0 to 29.
Agree30 ==
    /\ Len(src[1]) >= 30
    /\ Len(src[2]) >= 30
    /\ SubSeq(src[1], 1, 30) = SubSeq(src[2], 1, 30)

ConfigOut(r) ==
    [err |-> r.err, Width |-> r.Width, Height |-> r.Height, ColorModel |-> r.ColorModel]

(* C8, as stated: DecodeConfig returns the same result on any two inputs   *)
(* that agree on offsets 0 to 29, and reads nothing at offset 54 or above. *)
C8_Original ==
    /\ (Returned(4) /\ Agree30) => ConfigOut(res[2]) = ConfigOut(res[4])
    /\ \A k \in 1 .. Len(res) : res[k].fn = "DecodeConfig" => res[k].consumed <= 54

(* C8, amended: DecodeConfig consumes the whole 40-byte header, so the     *)
(* bytes at offsets 30 to 53 must be there, but it never decodes or        *)
(* validates them: on any two inputs of at least 54 bytes that agree on    *)
(* offsets 0 to 29 it returns the same result; it reads nothing at offset  *)
(* 54 or above, and exactly 54 bytes when it succeeds.                     *)
C8_ConfigOnly ==
    /\ (Returned(4) /\ Agree30 /\ Len(src[1]) >= 54 /\ Len(src[2]) >= 54) =>
          ConfigOut(res[2]) = ConfigOut(res[4])
    /\ \A k \in 1 .. Len(res) :
          res[k].fn = "DecodeConfig" =>
              /\ res[k].consumed <= 54
              /\ Succeeded(res[k]) => res[k].consumed = 54

\* DecodeConfig has succeeded alike on two files that differ from byte 30
\* on, where Decode has not returned alike.
C8_Witness ==
    /\ Returned(4)
    /\ Agree30
    /\ Len(src[1]) >= 54
    /\ Len(src[2]) >= 54
    /\ SubSeq(src[1], 31, 54) # SubSeq(src[2], 31, 54)
    /\ Succeeded(res[2])
    /\ Succeeded(res[4])
    /\ res[1].err # res[3].err

----------------------------------------------------------------------------
\* The pixel-data offset the file being decoded declares.
DeclaredOffset == getDWORD(Slice(File, 10, 14))

(* C10: stream position.  Before the gap Decode has consumed the 18 bytes  *)
(* of the file header and header size, headerSize - 4 header bytes and     *)
(* sourcePaletteCount * 4 palette bytes, which is the offset the gap       *)
(* skipper computes, bitfields term included; when the first pixel row is  *)
(* read it has consumed exactly the declared pixel-data offset; and a      *)
(* successful Decode has consumed that offset plus height * rowStride.     *)
C10_StreamPosition ==
    /\ pc = "readGap" =>
          /\ pos = 18 + (Small(d.headerSize) - 4) + d.srcPalNumEntries * 4
          /\ W(pos) = currentOffset(d)
    /\ (pc = "readBits" /\ srcRow = 0) => W(pos) = DeclaredOffset
    /\ pc = "result" =>
          W(pos) = WAdd(DeclaredOffset,
                        W(Small(d.height) * RowLen(d.width, d.bitCount)))

\* The first row of a 24-bit file is about to be read, past a palette that
\* is not used and a gap.
C10_Witness ==
    /\ pc = "readBits"
    /\ srcRow = 0
    /\ d.bitCount = 24
    /\ d.srcPalNumEntries > 0
    /\ input[Calls[run].file].gap > 0

====
